---- MODULE Spec2Model ----
(***************************************************************************)
(* NavigationScenesReducer (Libraries/NavigationExperimental/Reducer):     *)
(* the reconciliation of a scene list against a navigation state.          *)
(*                                                                         *)
(* Objects carry an identity: a route is [id, key], a scene is             *)
(* [id, index, isStale, key, route], a navigation state is                 *)
(* [ref, children] and a scene array is [ref, items].  JavaScript's ===    *)
(* on objects is equality of id / ref.  Strings are sequences of UTF-16    *)
(* code units.  A Map is the sequence of its entries in insertion order.   *)
(*                                                                         *)
(* Identities are named per call: the array passed in has ref 1 and its    *)
(* i-th scene has id i; the objects a call builds get the next ids, and    *)
(* the array it builds ref 2.  The state the caller holds has ref 1, a     *)
(* state object new to the call ref 2; ref 0 is undefined / null.          *)
(***************************************************************************)
EXTENDS Integers, Sequences, FiniteSets, TLC

\* ------------------------------------------------------------------ bounds
\* longest children sequence of a navigation state
MaxChildren == 2
\* longest caller-supplied scene list (specification SpecAny)
MaxScenes == 2
\* most scenes and children, together, passed to one call (SpecAny)
MaxInput == 4

\* --------------------------------------------------------------- the data
SCENE_KEY_PREFIX == <<115, 99, 101, 110, 101, 95>>      \* "scene_"

KeyA == <<97>>           \* "a"
KeyB == <<98>>           \* "b"
Key11 == <<49, 49>>      \* "11"

\* Route objects.  routeA and routeA2 are two objects with the same key.
routeA == [id |-> 1, key |-> KeyA]
routeB == [id |-> 2, key |-> KeyB]
route11 == [id |-> 3, key |-> Key11]
routeA2 == [id |-> 4, key |-> KeyA]

Routes == {routeA, routeB, route11, routeA2}

\* prevState === undefined / null, and "no array" (the call threw)
NoState == [ref |-> 0, children |-> <<>>]
NoList == [ref |-> 0, items |-> <<>>]

\* the sequences of at most n elements of S, no element twice
RECURSIVE SeqsUpTo(_, _)
SeqsUpTo(S, n) ==
  IF n = 0 THEN {<<>>}
  ELSE LET shorter == SeqsUpTo(S, n - 1)
           longer == {p \in shorter \X S :
                        \A i \in 1..Len(p[1]) : p[1][i] # p[2]}
       IN  shorter \cup {Append(p[1], p[2]) : p \in longer}

\* the children sequences a caller may pass
ChildrenLists == SeqsUpTo(Routes, MaxChildren)

\* ------------------------------------------------------------- comparators
\* JavaScript's one > two on strings: lexicographic on the code units
RECURSIVE StringGreater(_, _)
StringGreater(one, two) ==
  IF one = <<>> THEN FALSE
  ELSE IF two = <<>> THEN TRUE
  ELSE IF Head(one) # Head(two) THEN Head(one) > Head(two)
  ELSE StringGreater(Tail(one), Tail(two))

\* compareKey without the comparison of the lengths
compareKeyLexicographic(one, two) ==
  IF StringGreater(one, two) THEN 1 ELSE -1

\* compareKey without the comparison of the strings: keys of one length
\* compare as -1
compareKeyByLength(one, two) ==
  IF Len(one) - Len(two) > 0 THEN 1 ELSE -1

compareKey(one, two) ==
  LET delta == Len(one) - Len(two)
  IN  IF delta > 0 THEN 1
      ELSE IF delta < 0 THEN -1
      ELSE IF StringGreater(one, two) THEN 1 ELSE -1

\* compareScenes without its key comparison: equal indexes compare as 0
compareScenesByIndex(one, two) ==
  IF one.index > two.index THEN 1
  ELSE IF one.index < two.index THEN -1
  ELSE 0

compareScenes(one, two) ==
  IF one.index > two.index THEN 1
  ELSE IF one.index < two.index THEN -1
  ELSE compareKey(one.key, two.key)

\* areScenesShallowEqual without the comparison of isStale
areScenesEqualButStale(one, two) ==
  /\ one.key = two.key
  /\ one.index = two.index
  /\ one.route.id = two.route.id
  /\ one.route.key = two.route.key

\* areScenesShallowEqual without the comparison of index
areScenesEqualButIndex(one, two) ==
  /\ one.key = two.key
  /\ one.isStale = two.isStale
  /\ one.route.id = two.route.id
  /\ one.route.key = two.route.key

areScenesShallowEqual(one, two) ==
  /\ one.key = two.key
  /\ one.index = two.index
  /\ one.isStale = two.isStale
  /\ one.route.id = two.route.id
  /\ one.route.key = two.route.key

\* ------------------------------------------------------------------- Map
MapHas(m, k) == \E i \in 1..Len(m) : m[i].k = k

MapGet(m, k) == m[CHOOSE i \in 1..Len(m) : m[i].k = k].v

\* Map.prototype.set: an existing key keeps its place in the iteration order
MapSet(m, k, v) ==
  IF MapHas(m, k)
  THEN [i \in 1..Len(m) |-> IF m[i].k = k THEN [k |-> k, v |-> v] ELSE m[i]]
  ELSE Append(m, [k |-> k, v |-> v])

MapDelete(m, k) == SelectSeq(m, LAMBDA e : e.k # k)

\* ---------------------------------------------------------- the reducer
SceneKey(route) == SCENE_KEY_PREFIX \o route.key

\* PopulateScenes without the stale scenes carried over
RECURSIVE PopulateScenesNoStale(_, _, _)
PopulateScenesNoStale(items, i, acc) ==
  IF i > Len(items) THEN acc
  ELSE PopulateScenesNoStale(items, i + 1,
         [staleScenes |-> acc.staleScenes,
          prevScenes |-> MapSet(acc.prevScenes, items[i].key, items[i])])

\* PopulateScenes without its test: every previous scene carried as stale
RECURSIVE PopulateScenesAllStale(_, _, _)
PopulateScenesAllStale(items, i, acc) ==
  IF i > Len(items) THEN acc
  ELSE PopulateScenesAllStale(items, i + 1,
         [staleScenes |-> MapSet(acc.staleScenes, items[i].key, items[i]),
          prevScenes |-> MapSet(acc.prevScenes, items[i].key, items[i])])

\* PopulateScenes without prevScenes.set: no previous scene to reuse
RECURSIVE PopulateScenesNoPrev(_, _, _)
PopulateScenesNoPrev(items, i, acc) ==
  IF i > Len(items) THEN acc
  ELSE PopulateScenesNoPrev(items, i + 1,
         [staleScenes |-> IF items[i].isStale
                          THEN MapSet(acc.staleScenes, items[i].key, items[i])
                          ELSE acc.staleScenes,
          prevScenes |-> acc.prevScenes])

\* scenes.forEach(scene => ...): the previous scenes by key, and the ones
\* already stale
RECURSIVE PopulateScenes(_, _, _)
PopulateScenes(items, i, acc) ==
  IF i > Len(items) THEN acc
  ELSE LET scene == items[i]
           stale == IF scene.isStale
                    THEN MapSet(acc.staleScenes, scene.key, scene)
                    ELSE acc.staleScenes
       IN  PopulateScenes(items, i + 1,
             [staleScenes |-> stale,
              prevScenes |-> MapSet(acc.prevScenes, scene.key, scene)])

\* no invariant(): a later child silently replaces its sibling
ConflictsNever(nextKeys, key) == FALSE

\* the condition whose negation invariant() asserts
ConflictsWithSibling(nextKeys, key) == key \in nextKeys

\* no revival: the stale scene stays in the stale map
ReviveNever(staleScenes, key) == staleScenes

\* staleScenes.clear() for staleScenes.delete(key): one revival empties
\* the stale map
ReviveClears(staleScenes, key) ==
  IF \E i \in 1..Len(staleScenes) : staleScenes[i].k = key THEN <<>>
  ELSE staleScenes

\* a previously stale scene is part of nextState: out of the stale map
Revive(staleScenes, key) ==
  IF MapHas(staleScenes, key) THEN MapDelete(staleScenes, key)
  ELSE staleScenes

\* nextState.children.forEach((route, index) => ...); `at` is index + 1.
\* The invariant() throws at the first child whose key was seen before.
\* `made` is the number of scene objects that exist before this loop.
RECURSIVE ClassifyNext(_, _, _, _)
ClassifyNext(children, at, made, acc) ==
  IF at > Len(children) \/ acc.threw THEN acc
  ELSE LET route == children[at]
           key == SceneKey(route)
           scene == [id |-> made + at, index |-> at - 1,
                     isStale |-> FALSE, key |-> key, route |-> route]
       IN  IF ConflictsWithSibling(acc.nextKeys, key)
           THEN [acc EXCEPT !.threw = TRUE]
           ELSE ClassifyNext(children, at + 1, made,
                  [threw |-> FALSE,
                   nextKeys |-> acc.nextKeys \cup {key},
                   staleScenes |-> Revive(acc.staleScenes, key),
                   freshScenes |-> MapSet(acc.freshScenes, key, scene)])

\* ClassifyPrev with its test inverted: the routes still present made stale
RECURSIVE ClassifyPrevInverted(_, _, _, _, _)
ClassifyPrevInverted(children, at, made, freshScenes, staleScenes) ==
  IF at > Len(children) THEN staleScenes
  ELSE LET route == children[at]
           key == SceneKey(route)
           scene == [id |-> made + at, index |-> at - 1,
                     isStale |-> TRUE, key |-> key, route |-> route]
       IN  ClassifyPrevInverted(children, at + 1, made, freshScenes,
             IF ~MapHas(freshScenes, key) THEN staleScenes
             ELSE MapSet(staleScenes, key, scene))

\* ClassifyPrev without its test: every previous route made stale
RECURSIVE ClassifyPrevAll(_, _, _, _, _)
ClassifyPrevAll(children, at, made, freshScenes, staleScenes) ==
  IF at > Len(children) THEN staleScenes
  ELSE LET route == children[at]
           key == SceneKey(route)
           scene == [id |-> made + at, index |-> at - 1,
                     isStale |-> TRUE, key |-> key, route |-> route]
       IN  ClassifyPrevAll(children, at + 1, made, freshScenes,
             MapSet(staleScenes, key, scene))

\* ClassifyPrev that keeps a scene already in the stale map, with the
\* index it recorded
RECURSIVE ClassifyPrevKeepsStale(_, _, _, _, _)
ClassifyPrevKeepsStale(children, at, made, freshScenes, staleScenes) ==
  IF at > Len(children) THEN staleScenes
  ELSE LET route == children[at]
           key == SceneKey(route)
           scene == [id |-> made + at, index |-> at - 1,
                     isStale |-> TRUE, key |-> key, route |-> route]
       IN  ClassifyPrevKeepsStale(children, at + 1, made, freshScenes,
             IF MapHas(freshScenes, key) \/ MapHas(staleScenes, key)
             THEN staleScenes
             ELSE MapSet(staleScenes, key, scene))

\* prevState.children.forEach((route, index) => ...); `at` is index + 1,
\* `made` the number of scene objects that exist before this loop.
RECURSIVE ClassifyPrev(_, _, _, _, _)
ClassifyPrev(children, at, made, freshScenes, staleScenes) ==
  IF at > Len(children) THEN staleScenes
  ELSE LET route == children[at]
           key == SceneKey(route)
           scene == [id |-> made + at, index |-> at - 1,
                     isStale |-> TRUE, key |-> key, route |-> route]
       IN  ClassifyPrev(children, at + 1, made, freshScenes,
             IF MapHas(freshScenes, key) THEN staleScenes
             ELSE MapSet(staleScenes, key, scene))

\* mergeScene that never reuses the previous scene
mergeSceneNoReuse(nextScenes, prevScenes, nextScene) ==
  Append(nextScenes, nextScene)

mergeScene(nextScenes, prevScenes, nextScene) ==
  LET key == nextScene.key
  IN  IF MapHas(prevScenes, key)
         /\ areScenesShallowEqual(MapGet(prevScenes, key), nextScene)
      THEN Append(nextScenes, MapGet(prevScenes, key))
      ELSE Append(nextScenes, nextScene)

\* map.forEach(mergeScene)
RECURSIVE MergeAll(_, _, _, _)
MergeAll(map, i, prevScenes, nextScenes) ==
  IF i > Len(map) THEN nextScenes
  ELSE MergeAll(map, i + 1, prevScenes,
                mergeScene(nextScenes, prevScenes, map[i].v))

\* Array.prototype.sort(compareScenes), as an insertion sort
RECURSIVE InsertScene(_, _)
InsertScene(sorted, scene) ==
  IF sorted = <<>> THEN <<scene>>
  ELSE IF compareScenes(Head(sorted), scene) > 0 THEN <<scene>> \o sorted
  ELSE <<Head(sorted)>> \o InsertScene(Tail(sorted), scene)

RECURSIVE SortScenes(_, _, _)
SortScenes(items, i, sorted) ==
  IF i > Len(items) THEN sorted
  ELSE SortScenes(items, i + 1, InsertScene(sorted, items[i]))

\* const nextScenes = scenes: the array passed in, written to
ReusedArrayRef(scenes) == scenes.ref

\* const nextScenes = []: an array that is not the one passed in
NewArrayRef(scenes) == scenes.ref + 1

\* the arrays in memory, by ref, once `items` are the contents of array
\* `ref` (nextScenes.push, nextScenes.sort write to the array they are
\* called on)
WriteArray(arrays, ref, items) ==
  [r \in (DOMAIN arrays) \cup {ref} |-> IF r = ref THEN items ELSE arrays[r]]

\* the arrays in memory when the reducer is called
ArraysAtCall(scenes) == [r \in {scenes.ref} |-> scenes.items]

\* the three maps as they are when the merge begins (or threw, when the
\* invariant() failed on the way)
Classify(scenes, nextState, prevState) ==
  LET made == Len(scenes.items)
      maps == PopulateScenes(scenes.items, 1,
                [staleScenes |-> <<>>, prevScenes |-> <<>>])
      next == ClassifyNext(nextState.children, 1, made,
                [threw |-> FALSE, nextKeys |-> {},
                 staleScenes |-> maps.staleScenes, freshScenes |-> <<>>])
      staleScenes ==
        IF prevState.ref # 0
        THEN ClassifyPrev(prevState.children, 1,
               made + Len(nextState.children),
               next.freshScenes, next.staleScenes)
        ELSE next.staleScenes
  IN  [threw |-> next.threw, prevScenes |-> maps.prevScenes,
       freshScenes |-> next.freshScenes, staleScenes |-> staleScenes]

\* the reducer past its first test (prevState !== nextState)
ReduceFull(scenes, nextState, prevState) ==
  LET next == Classify(scenes, nextState, prevState)
      merged == MergeAll(next.freshScenes, 1, next.prevScenes,
                  MergeAll(next.staleScenes, 1, next.prevScenes, <<>>))
      sorted == SortScenes(merged, 1, <<>>)
  IN  IF next.threw
      THEN [outcome |-> "threw", path |-> "full", value |-> NoList,
            arrays |-> ArraysAtCall(scenes)]
      ELSE [outcome |-> "returned", path |-> "full",
            value |-> [ref |-> NewArrayRef(scenes), items |-> sorted],
            arrays |-> WriteArray(ArraysAtCall(scenes),
                                  NewArrayRef(scenes), sorted)]

\* the reducer without its first test
NavigationScenesReducerNoFastPath(scenes, nextState, prevState) ==
  ReduceFull(scenes, nextState, prevState)

\* the reducer with an invariant() in its loop over prevState.children too
NavigationScenesReducerStrict(scenes, nextState, prevState) ==
  IF prevState.ref = nextState.ref
  THEN [outcome |-> "returned", path |-> "fast", value |-> scenes,
        arrays |-> ArraysAtCall(scenes)]
  ELSE IF \E i, j \in 1..Len(prevState.children) :
            i # j /\ prevState.children[i].key = prevState.children[j].key
  THEN [outcome |-> "threw", path |-> "full", value |-> NoList,
        arrays |-> ArraysAtCall(scenes)]
  ELSE ReduceFull(scenes, nextState, prevState)

NavigationScenesReducer(scenes, nextState, prevState) ==
  IF prevState.ref = nextState.ref
  THEN [outcome |-> "returned", path |-> "fast", value |-> scenes,
        arrays |-> ArraysAtCall(scenes)]
  ELSE ReduceFull(scenes, nextState, prevState)

\* ---------------------------------------------------------------- state
VARIABLES
  scenes,      \* the scene array the caller holds
  navState,    \* the navigation state the caller holds (NoState: none yet)
  argScenes,   \* the arguments of the last call ...
  argNext,
  argPrev,
  outcome,     \* ... and how it ended: "none", "returned", "threw"
  path,        \* "none", "fast", "full"
  result,      \* the array it returned (NoList when it threw)
  arrays       \* the contents of the arrays, by ref, after the last call

vars ==
  <<scenes, navState, argScenes, argNext, argPrev, outcome, path, result,
    arrays>>

\* a navigation state object that is not the one the caller holds
NewState(children) == [ref |-> navState.ref + 1, children |-> children]

\* what the caller holds after a call, named as the next call will see it
HeldScenes(array) ==
  [ref |-> 1,
   items |-> [i \in 1..Len(array.items) |-> [array.items[i] EXCEPT !.id = i]]]

HeldState(state) == [state EXCEPT !.ref = 1]

\* one call NavigationScenesReducer(s, n, p); the caller keeps what it
\* returns, and keeps what it had when the call throws
Call(s, n, p) ==
  \E r \in {NavigationScenesReducer(s, n, p)} :
      /\ argScenes' = s
      /\ argNext' = n
      /\ argPrev' = p
      /\ outcome' = r.outcome
      /\ path' = r.path
      /\ result' = r.value
      /\ arrays' = r.arrays
      /\ scenes' = IF r.outcome = "returned" THEN HeldScenes(r.value) ELSE scenes
      /\ navState' = IF r.outcome = "returned" THEN HeldState(n) ELSE navState

\* the state changed: a new state object, the held one as previous state
Reconcile(children) == Call(scenes, NewState(children), navState)

\* the same state object again
ReconcileSame ==
  /\ navState.ref # 0
  /\ Call(scenes, navState, navState)

\* a call that passes no previous state
ReconcileNoPrev(children) == Call(scenes, NewState(children), NoState)

\* the caller starts from no scenes and no state
Init ==
  /\ scenes = [ref |-> 1, items |-> <<>>]
  /\ navState = NoState
  /\ argScenes = NoList
  /\ argNext = NoState
  /\ argPrev = NoState
  /\ outcome = "none"
  /\ path = "none"
  /\ result = NoList
  /\ arrays = ArraysAtCall(scenes)

Next ==
  \/ \E children \in ChildrenLists : Reconcile(children)
  \/ ReconcileSame
  \/ \E children \in ChildrenLists : ReconcileNoPrev(children)

\* chains of calls started from the empty scene list
Spec == Init /\ [][Next]_vars

\* ------------------------------------------- one call on any arguments
\* the scene objects a caller may pass: any index, staleness and route
AnyScenes ==
  {[id |-> 0, index |-> index, isStale |-> isStale,
    key |-> SceneKey(route), route |-> route] :
     index \in 0..(MaxChildren - 1), isStale \in BOOLEAN, route \in Routes}

AnySceneLists ==
  UNION {[1..n -> AnyScenes] : n \in 0..MaxScenes}

InitAny ==
  /\ \E items \in AnySceneLists :
        scenes = HeldScenes([ref |-> 1, items |-> items])
  /\ \E children \in ChildrenLists :
        /\ Len(scenes.items) + Len(children) <= MaxInput
        /\ navState = [ref |-> 1, children |-> children]
  /\ argScenes = NoList
  /\ argNext = NoState
  /\ argPrev = NoState
  /\ outcome = "none"
  /\ path = "none"
  /\ result = NoList
  /\ arrays = ArraysAtCall(scenes)

\* the children a first call may pass within MaxInput
InputLists ==
  {children \in ChildrenLists :
     Len(scenes.items) + Len(navState.children) + Len(children) <= MaxInput}

NextAny ==
  /\ outcome = "none"
  /\ \/ \E children \in InputLists : Reconcile(children)
     \/ ReconcileSame
     \/ \E children \in InputLists : ReconcileNoPrev(children)

SpecAny == InitAny /\ [][NextAny]_vars

\* ------------------------------------------------------- the properties
\* the scenes passed to the last call and the scenes it returned
\* ------------------- one call on any arguments, then structural repeats
\* the state is rebuilt with the same route objects in the same order: a
\* new state object, the held one as previous state, the held scenes
ReconcileEqual ==
  /\ outcome = "returned"
  /\ Reconcile(navState.children)

NextRepeat ==
  \/ NextAny
  \/ ReconcileEqual

SpecRepeat == InitAny /\ [][NextRepeat]_vars

In == argScenes.items
Out == result.items

ReturnedFull == outcome = "returned" /\ path = "full"

HasDuplicateKeys(children) ==
  \E i, j \in 1..Len(children) : i # j /\ children[i].key = children[j].key

DistinctSceneKeys(items) ==
  \A i, j \in 1..Len(items) : i # j => items[i].key # items[j].key

\* the derived scene keys of a children sequence
ChildKeys(children) == {SceneKey(children[i]) : i \in 1..Len(children)}

\* the positions of `items` whose scene has this key and this staleness
Having(items, key, isStale) ==
  {j \in 1..Len(items) : items[j].key = key /\ items[j].isStale = isStale}

\* C1: a call whose previous state and next state are the same object
\* returns the very array it was given (same array, same scene objects in
\* the same order) and does not throw, duplicate keys among the state's
\* children included.
C1_FastPathReturnsScenes ==
  (outcome # "none" /\ argPrev.ref = argNext.ref)
    => (outcome = "returned" /\ result = argScenes)

C1_Witness ==
  /\ outcome = "returned"
  /\ argPrev.ref = argNext.ref
  /\ HasDuplicateKeys(argNext.children)
  /\ Len(In) > 0
  /\ result = argScenes

\* C2: on the full path, every route of nextState.children has exactly one
\* scene in the output that is not stale and holds that route object,
\* whatever the previous scenes and the previous state are.
C2_Completeness ==
  ReturnedFull =>
    \A i \in 1..Len(argNext.children) :
      Cardinality({j \in 1..Len(Out) :
                     /\ ~Out[j].isStale
                     /\ Out[j].route.id = argNext.children[i].id}) = 1

\* the case of a route whose scene was stale in the previous scenes
C2_Witness ==
  /\ ReturnedFull
  /\ \E i \in 1..Len(argNext.children), p \in 1..Len(In) :
        /\ In[p].isStale
        /\ In[p].route.id = argNext.children[i].id
        /\ In[p].index = i - 1
        /\ \E j \in 1..Len(Out) :
              ~Out[j].isStale /\ Out[j].route.id = In[p].route.id

\* C3: with a previous state that is not the next state, every route of
\* previousState.children whose key is no key of nextState.children has
\* exactly one scene in the output with isStale and the key "scene_" +
\* route.key (and no scene of that key that is not stale), built on a route
\* of previousState.children; and every stale scene of the output holds a
\* route of previousState.children or of a stale previous scene.
C3_StaleRetention ==
  (ReturnedFull /\ argPrev.ref # 0) =>
    /\ \A i \in 1..Len(argPrev.children) :
         LET key == SceneKey(argPrev.children[i])
         IN  key \notin ChildKeys(argNext.children) =>
               /\ Cardinality(Having(Out, key, TRUE)) = 1
               /\ Having(Out, key, FALSE) = {}
               /\ \A j \in Having(Out, key, TRUE) :
                    \E k \in 1..Len(argPrev.children) :
                      Out[j].route.id = argPrev.children[k].id
    /\ \A j \in 1..Len(Out) :
         Out[j].isStale =>
           \/ \E k \in 1..Len(argPrev.children) :
                Out[j].route.id = argPrev.children[k].id
           \/ \E p \in 1..Len(In) :
                In[p].isStale /\ In[p].route.id = Out[j].route.id

\* a removed route beside a kept one, the removed key twice in the
\* previous state or already stale in the previous scenes
C3_Witness ==
  /\ ReturnedFull
  /\ argPrev.ref # 0
  /\ Len(argNext.children) > 0
  /\ \E i \in 1..Len(argPrev.children) :
        LET key == SceneKey(argPrev.children[i])
        IN  /\ key \notin ChildKeys(argNext.children)
            /\ Having(Out, key, TRUE) # {}
            /\ \/ HasDuplicateKeys(argPrev.children)
               \/ Having(In, key, TRUE) # {}

\* C4 as stated: whenever a call returns, a key that is stale in the
\* previous scenes and is the key of a child of nextState has a scene that
\* is not stale in the output, and no stale one.
C4_RevivalAnyPath ==
  outcome = "returned" =>
    \A key \in ChildKeys(argNext.children) :
      Having(In, key, TRUE) # {} =>
        (Having(Out, key, FALSE) # {} /\ Having(Out, key, TRUE) = {})

\* C4, amended: the same when the call goes through the full path (the
\* previous state is not the next state), whether or not
\* previousState.children holds the key too.
C4_Revival ==
  ReturnedFull =>
    \A key \in ChildKeys(argNext.children) :
      Having(In, key, TRUE) # {} =>
        (Having(Out, key, FALSE) # {} /\ Having(Out, key, TRUE) = {})

\* a revived key that the previous state holds as well
C4_Witness ==
  /\ ReturnedFull
  /\ \E key \in ChildKeys(argNext.children) :
        /\ Having(In, key, TRUE) # {}
        /\ key \in ChildKeys(argPrev.children)
        /\ Having(Out, key, FALSE) # {}

\* C5: a call whose nextState has two children of equal key, and whose
\* previous state is not that same object, throws and returns no array.
C5_DuplicateKeyRejected ==
  (outcome # "none" /\ argPrev.ref # argNext.ref
     /\ HasDuplicateKeys(argNext.children))
    => (outcome = "threw" /\ result = NoList)

C5_Witness ==
  /\ outcome = "threw"
  /\ HasDuplicateKeys(argNext.children)
  /\ argPrev.ref # 0
  /\ Len(In) > 0
  /\ result = NoList

\* the previous scenes with the key, index, isStale and route object of `o`
Matching(o) ==
  {p \in 1..Len(In) :
     /\ In[p].key = o.key
     /\ In[p].index = o.index
     /\ In[p].isStale = o.isStale
     /\ In[p].route.id = o.route.id}

\* the scene is an object of the array passed in, not one the call built
IsPrevious(o) == o.id \in 1..Len(In) /\ o = In[o.id]

\* C6 as stated: on the full path every output scene is a previous scene
\* object whenever some previous scene has its key, index, isStale and
\* route object (and is then one of those), and is an object built by the
\* call otherwise.
C6_IdentityAnyScenes ==
  ReturnedFull =>
    \A j \in 1..Len(Out) :
      IF Matching(Out[j]) # {}
      THEN IsPrevious(Out[j]) /\ Out[j].id \in Matching(Out[j])
      ELSE Out[j].id > Len(In)

\* C6, amended: the same when the keys of the previous scenes are pairwise
\* distinct (of two previous scenes with one key the reducer looks at the
\* later one only).
C6_IdentityPreserved ==
  (ReturnedFull /\ DistinctSceneKeys(In)) =>
    \A j \in 1..Len(Out) :
      IF Matching(Out[j]) # {}
      THEN IsPrevious(Out[j]) /\ Out[j].id \in Matching(Out[j])
      ELSE Out[j].id > Len(In)

\* one scene reused, and one rebuilt although a previous scene has its key
C6_Witness ==
  /\ ReturnedFull
  /\ DistinctSceneKeys(In)
  /\ \E j \in 1..Len(Out) :
        ~Out[j].isStale /\ Matching(Out[j]) # {} /\ IsPrevious(Out[j])
  /\ \E j \in 1..Len(Out), p \in 1..Len(In) :
        /\ In[p].key = Out[j].key
        /\ Matching(Out[j]) = {}
        /\ Out[j].id > Len(In)

\* x comes before y in the lexicographic order of the code units
LexLess(x, y) ==
  \/ Len(x) < Len(y) /\ \A m \in 1..Len(x) : x[m] = y[m]
  \/ \E k \in 1..Len(x) :
       /\ k <= Len(y)
       /\ x[k] < y[k]
       /\ \A m \in 1..(k - 1) : x[m] = y[m]

\* a comes before b: by index, then by the length of the key, then by the
\* lexicographic order of the key
InOrder(a, b) ==
  \/ a.index < b.index
  \/ a.index = b.index /\ Len(a.key) < Len(b.key)
  \/ a.index = b.index /\ Len(a.key) = Len(b.key) /\ LexLess(a.key, b.key)

\* C7: in every output of the full path any two adjacent scenes are in
\* order: smaller index first; at equal index the shorter key first; at
\* equal index and key length the lexicographically smaller key first.
C7_Ordering ==
  ReturnedFull =>
    \A j \in 1..(Len(Out) - 1) : InOrder(Out[j], Out[j + 1])

\* at one index: two keys of equal length, and a shorter key before a
\* longer one that is lexicographically smaller ("scene_b", "scene_11")
C7_Witness ==
  /\ ReturnedFull
  /\ \E j \in 1..(Len(Out) - 2) :
        /\ Out[j].index = Out[j + 1].index
        /\ Out[j + 1].index = Out[j + 2].index
        /\ Len(Out[j].key) = Len(Out[j + 1].key)
        /\ LexLess(Out[j].key, Out[j + 1].key)
        /\ Len(Out[j + 1].key) < Len(Out[j + 2].key)
        /\ LexLess(Out[j + 2].key, Out[j + 1].key)

\* C8: when the keys of the previous scenes are pairwise distinct, no two
\* scenes of the array a call returns share a key (so no key is both stale
\* and not stale).
C8_KeysUnique ==
  (outcome = "returned" /\ DistinctSceneKeys(In)) =>
    /\ DistinctSceneKeys(Out)
    /\ \A j \in 1..Len(Out) :
         Having(Out, Out[j].key, ~Out[j].isStale) = {}

\* a revived key and a key of both states, beside a stale scene
C8_Witness ==
  /\ ReturnedFull
  /\ DistinctSceneKeys(In)
  /\ \E key \in ChildKeys(argNext.children) :
        Having(In, key, TRUE) # {} \/ key \in ChildKeys(argPrev.children)
  /\ \E j \in 1..Len(Out) : Out[j].isStale
  /\ Len(Out) >= 2

\* the same along the chains started from the empty scene list, where no
\* assumption on the previous scenes is needed
C8_ChainKeysUnique == outcome = "returned" => DistinctSceneKeys(Out)

\* the keys of the routes the last call found removed from the state
RemovedKeys ==
  IF ReturnedFull /\ argPrev.ref # 0
  THEN ChildKeys(argPrev.children) \ ChildKeys(argNext.children)
  ELSE {}

\* the next step is a call that is given the held scenes and the held
\* state as previous state, and returns
ChainedCall ==
  outcome' = "returned" /\ argScenes' = scenes /\ argPrev' = navState

\* C9 as stated: a route removed at one call is stale in that call's
\* output, and the next call of the chain, unless its state holds the key
\* again, returns no scene of that key.
C9_StaleOneCycle ==
  [][/\ \A key \in RemovedKeys : Having(Out, key, TRUE) # {}
     /\ ChainedCall =>
          \A key \in RemovedKeys :
            key \notin ChildKeys(argNext'.children) =>
              \A j \in 1..Len(result'.items) : result'.items[j].key # key]_vars

\* C9, amended: a route removed at one call is stale in that call's
\* output, and every stale scene the caller holds is again a stale scene
\* of the array the next call returns, unless that call's state holds its
\* key: a stale scene persists until it is revived.
C9_StalePersists ==
  [][/\ \A key \in RemovedKeys : Having(Out, key, TRUE) # {}
     /\ (outcome' = "returned" /\ argScenes' = scenes) =>
          \A p \in 1..Len(scenes.items) :
            (/\ scenes.items[p].isStale
             /\ scenes.items[p].key \notin ChildKeys(argNext'.children))
              => Having(result'.items, scenes.items[p].key, TRUE) # {}]_vars

\* a stale scene kept by a call whose two states both lack its route
C9_Witness ==
  /\ ReturnedFull
  /\ argPrev.ref # 0
  /\ \E j \in 1..Len(Out) :
        /\ Out[j].isStale
        /\ Out[j].key \notin ChildKeys(argPrev.children)
        /\ Out[j].key \notin ChildKeys(argNext.children)
        /\ Having(In, Out[j].key, TRUE) # {}

\* the call of the worked example: the scenes built from [a, b], then
\* nextState.children = [b] with previousState.children = [a, b]
ExampleCall ==
  /\ outcome # "none"
  /\ In = <<[id |-> 1, index |-> 0, isStale |-> FALSE,
             key |-> SceneKey(routeA), route |-> routeA],
            [id |-> 2, index |-> 1, isStale |-> FALSE,
             key |-> SceneKey(routeB), route |-> routeB]>>
  /\ argNext.children = <<routeB>>
  /\ argPrev.ref # 0
  /\ argPrev.ref # argNext.ref
  /\ argPrev.children = <<routeA, routeB>>

\* what the example says of the values: [scene_a at 0, stale; scene_b at
\* 0, not stale]
ExampleOutput ==
  /\ outcome = "returned"
  /\ Len(Out) = 2
  /\ Out[1].key = SceneKey(routeA) /\ Out[1].index = 0
  /\ Out[1].isStale /\ Out[1].route = routeA
  /\ Out[2].key = SceneKey(routeB) /\ Out[2].index = 0
  /\ ~Out[2].isStale /\ Out[2].route = routeB

\* C10 as stated: the example's output, its scene_b being the previous
\* scene_b object.
C10_ExampleReusesSceneB ==
  ExampleCall => (ExampleOutput /\ Out[2].id = In[2].id)

\* C10, amended: the example's output, its scene_b being an object the
\* call built (the previous scene_b has index 1), like its scene_a.
C10_Example ==
  ExampleCall =>
    (ExampleOutput /\ Out[2].id > Len(In) /\ Out[1].id > Len(In))

C10_Witness == ExampleCall /\ ExampleOutput /\ argScenes.ref # result.ref

\* the keys that are stale in the previous scenes and no key of nextState
CarriedKeys ==
  {In[p].key : p \in {q \in 1..Len(In) : In[q].isStale}}
    \ ChildKeys(argNext.children)

\* the output of a call without previous state: one scene that is not
\* stale per child of nextState, and per carried key one scene, which is a
\* previous scene object that was stale; so no previous scene that was not
\* stale is kept for a route that left, nor made stale
OutputWithoutPrevState ==
  /\ \A i \in 1..Len(argNext.children) :
       Cardinality({j \in 1..Len(Out) :
                      /\ ~Out[j].isStale
                      /\ Out[j].index = i - 1
                      /\ Out[j].key = SceneKey(argNext.children[i])
                      /\ Out[j].route.id = argNext.children[i].id}) = 1
  /\ \A key \in CarriedKeys : Cardinality(Having(Out, key, TRUE)) = 1
  /\ \A j \in 1..Len(Out) :
       Out[j].isStale =>
         /\ Out[j].key \in CarriedKeys
         /\ IsPrevious(Out[j])
  /\ Len(Out) = Len(argNext.children) + Cardinality(CarriedKeys)

\* C11 as stated: a call without previous state does not throw, and its
\* output is the scenes of nextState's children plus the previous scenes
\* that were stale and have no key of nextState.
C11_NoPrevStateNeverFails ==
  (outcome # "none" /\ argPrev.ref = 0)
    => (outcome = "returned" /\ OutputWithoutPrevState)

\* C11, amended: the same when no two children of nextState have equal
\* keys (with equal keys the call throws, previous state or not).
C11_NoPrevState ==
  (outcome # "none" /\ argPrev.ref = 0
     /\ ~HasDuplicateKeys(argNext.children))
    => (outcome = "returned" /\ OutputWithoutPrevState)

\* without previous state: a scene that was not stale dropped with its
\* route, beside a stale one carried over
C11_Witness ==
  /\ outcome = "returned"
  /\ argPrev.ref = 0
  /\ Len(argNext.children) > 0
  /\ CarriedKeys # {}
  /\ \E p \in 1..Len(In) :
        /\ ~In[p].isStale
        /\ In[p].key \notin ChildKeys(argNext.children)
        /\ In[p].key \notin CarriedKeys
        /\ \A j \in 1..Len(Out) : Out[j].key # In[p].key

\* C12: after any call, returned or thrown, the array passed in holds the
\* same scene objects in the same order, each with the key, index,
\* isStale and route it had; and the array the full path returns is not
\* the array passed in.
C12_InputsNotMutated ==
  outcome # "none" =>
    /\ argScenes.ref \in DOMAIN arrays
    /\ Len(arrays[argScenes.ref]) = Len(In)
    /\ \A i \in 1..Len(In) : arrays[argScenes.ref][i] = In[i]
    /\ ReturnedFull => result.ref # argScenes.ref
    /\ outcome = "returned" => arrays[result.ref] = Out

\* a full-path call whose output differs from the array passed in,
\* in length and in its first scene
C12_Witness ==
  /\ ReturnedFull
  /\ Len(In) > 0
  /\ Len(Out) > Len(In)
  /\ Out[1] # In[1]
  /\ arrays[argScenes.ref] = In

\* the positions of the previous scenes that are stale and whose key is
\* not the key of a child of nextState
CarriedPositions ==
  {p \in 1..Len(In) :
     In[p].isStale /\ In[p].key \notin ChildKeys(argNext.children)}

\* C13: whenever a call returns, every previous scene that is stale and
\* whose key is not the derived key of a nextState child has a stale scene
\* of its key in the output, its route being among the children of
\* previousState or not; a chain of calls hands each
\* output to the next call, so the stale scene stays until its key is a
\* child's key again.
C13_StaleCarryover ==
  outcome = "returned" =>
    \A p \in CarriedPositions :
      \E j \in 1..Len(Out) : Out[j].isStale /\ Out[j].key = In[p].key

\* a full-path call that carries two stale scenes, one whose route is a
\* child of previousState and one whose route is not
C13_Witness ==
  /\ ReturnedFull
  /\ argPrev.ref # 0
  /\ \E p, q \in CarriedPositions :
        /\ In[p].key \in ChildKeys(argPrev.children)
        /\ In[q].key \notin ChildKeys(argPrev.children)
        /\ \E j \in 1..Len(Out) : Out[j].isStale /\ Out[j].key = In[p].key
        /\ \E j \in 1..Len(Out) : Out[j].isStale /\ Out[j].key = In[q].key

\* the positions of a children sequence that hold this route object
PositionsOf(children, route) ==
  {i \in 1..Len(children) : children[i].id = route.id}

\* C14: in every output of the full path a non-stale scene has its route
\* among the children of nextState and its index is that position; a stale
\* scene whose route is among the children of previousState has that
\* position as its index, whatever index the previous scenes recorded.
C14_SceneIndexes ==
  ReturnedFull =>
    \A j \in 1..Len(Out) :
      IF Out[j].isStale
      THEN \A i \in PositionsOf(argPrev.children, Out[j].route) :
             Out[j].index = i - 1
      ELSE /\ PositionsOf(argNext.children, Out[j].route) # {}
           /\ \A i \in PositionsOf(argNext.children, Out[j].route) :
                Out[j].index = i - 1

\* a stale output scene whose route is a child of previousState, while a
\* stale previous scene of its key recorded another index; and a non-stale
\* output scene
C14_Witness ==
  /\ ReturnedFull
  /\ \E j \in 1..Len(Out) : ~Out[j].isStale
  /\ \E j \in 1..Len(Out) :
        /\ Out[j].isStale
        /\ PositionsOf(argPrev.children, Out[j].route) # {}
        /\ \E p \in 1..Len(In) :
              /\ In[p].isStale
              /\ In[p].key = Out[j].key
              /\ In[p].route.id = Out[j].route.id
              /\ In[p].index # Out[j].index

\* the iteration orders a map of these entries could have
Orders(map) ==
  IF map = <<>> THEN {<<>>}
  ELSE {[i \in 1..Len(map) |-> map[f[i]]] : f \in Permutations(1..Len(map))}

\* nextScenes once `first` and then `second` were merged into it, sorted
MergedThenSorted(first, second, prevScenes) ==
  SortScenes(MergeAll(second, 1, prevScenes,
               MergeAll(first, 1, prevScenes, <<>>)), 1, <<>>)

\* the maps the last call merged
LastMaps == Classify(argScenes, argNext, argPrev)

\* C15: whenever the full path returns, merging the stale map then the
\* fresh map, or the fresh map then the stale map, each map iterated in
\* any order, ends in the list the call returned: the same scene objects
\* at the same positions.
C15_MergeOrderIndependent ==
  ReturnedFull =>
    \A maps \in {LastMaps} :
      \A stale \in Orders(maps.staleScenes) :
        \A fresh \in Orders(maps.freshScenes) :
          /\ MergedThenSorted(stale, fresh, maps.prevScenes) = Out
          /\ MergedThenSorted(fresh, stale, maps.prevScenes) = Out

\* a call that merged two stale scenes and a fresh one, two of them with
\* the same index, and returned a list in another order than the merge's
C15_Witness ==
  /\ ReturnedFull
  /\ \E i, j \in 1..Len(Out) : i # j /\ Out[i].index = Out[j].index
  /\ \E maps \in {LastMaps} :
        /\ Len(maps.staleScenes) >= 2
        /\ Len(maps.freshScenes) >= 1
        /\ Out # MergeAll(maps.freshScenes, 1, maps.prevScenes,
                   MergeAll(maps.staleScenes, 1, maps.prevScenes, <<>>))

\* the last position of `items` whose element satisfies Test
LastWhere(items, Test(_)) ==
  CHOOSE i \in 1..Len(items) :
    Test(items[i]) /\ \A j \in (i + 1)..Len(items) : ~Test(items[j])

\* among entries of one key the later one is the one that counts: a stale
\* output scene rebuilt from previousState has the last child of its key
\* as route, and one carried from the previous scenes has the fields of
\* the last stale previous scene of its key
LaterEntryWins ==
  \A j \in 1..Len(Out) :
    Out[j].isStale =>
      IF Out[j].key \in ChildKeys(argPrev.children)
      THEN LET sameKey(route) == SceneKey(route) = Out[j].key
               last == LastWhere(argPrev.children, sameKey)
           IN  Out[j].route.id = argPrev.children[last].id
               /\ Out[j].index = last - 1
      ELSE LET staleOfKey(scene) == scene.isStale /\ scene.key = Out[j].key
               last == LastWhere(In, staleOfKey)
           IN  Out[j].route.id = In[last].route.id
               /\ Out[j].index = In[last].index

\* C16: a call throws exactly when its previous state is not the object
\* that is its next state and two children of the next state have equal
\* keys; equal keys among the children of the previous state or among the
\* previous scenes, stale or not, do not make it throw, and the later
\* entry of a key is the one the output shows.
C16_SingleErrorKind ==
  outcome # "none" =>
    /\ outcome = "threw" <=>
          (argPrev.ref # argNext.ref /\ HasDuplicateKeys(argNext.children))
    /\ ReturnedFull => LaterEntryWins

\* a full-path return with two previousState children of one key, and two
\* previous scenes of one key of which one is stale and one is not
C16_Witness ==
  /\ ReturnedFull
  /\ HasDuplicateKeys(argPrev.children)
  /\ \E p, q \in 1..Len(In) :
        p # q /\ In[p].key = In[q].key /\ In[p].isStale /\ ~In[q].isStale
  /\ \E j \in 1..Len(Out) : Out[j].isStale

\* the scenes of the list the last call returned
ScenesOfCall == {Out[j] : j \in 1..Len(Out)}

\* C17: over the scenes of any returned list, compareScenes gives two
\* scenes that differ in index or key opposite non-zero signs, and is transitive; compareKey is never 0 and is -1 on
\* two equal keys; the keys of a list the full path sorted are pairwise
\* distinct, so no two of its scenes meet that case.
C17_StrictTotalOrder ==
  outcome = "returned" =>
    \A given \in {ScenesOfCall} :
      /\ \A a, b \in given :
           /\ compareKey(a.key, b.key) \in {-1, 1}
           /\ a.key = b.key => compareKey(a.key, b.key) = -1
           /\ (a.index # b.index \/ a.key # b.key) =>
                \/ compareScenes(a, b) = 1 /\ compareScenes(b, a) = -1
                \/ compareScenes(a, b) = -1 /\ compareScenes(b, a) = 1
      /\ \A a, b \in given :
           compareScenes(a, b) < 0 =>
             \A c \in given :
               compareScenes(b, c) < 0 => compareScenes(a, c) < 0
      /\ path = "full" => DistinctSceneKeys(Out)

\* a sorted output of three scenes: two indexes, three keys of two lengths
C17_Witness ==
  /\ ReturnedFull
  /\ Len(Out) = 3
  /\ Cardinality({Out[j].index : j \in 1..Len(Out)}) = 2
  /\ Cardinality({Len(Out[j].key) : j \in 1..Len(Out)}) = 2
  /\ \E i, j \in 1..Len(Out) :
        /\ i # j
        /\ Out[i].index = Out[j].index
        /\ Len(Out[i].key) = Len(Out[j].key)

\* the step is a call on the scenes and the state a returned call left,
\* with a next state that is another object with the same children
RepeatCall ==
  /\ outcome = "returned"
  /\ navState.ref # 0
  /\ argScenes' = scenes
  /\ argPrev' = navState
  /\ argNext'.ref # navState.ref
  /\ argNext'.children = navState.children

\* the step's call returns the scene objects it was given, position by
\* position, and no other
SameScenes ==
  /\ outcome' = "returned"
  /\ Len(result'.items) = Len(scenes.items)
  /\ \A i \in 1..Len(scenes.items) : result'.items[i] = scenes.items[i]

\* C18 as stated: after any returned call with next state T, a call on its
\* output with previous state T and a next state that is another object
\* with the same routes returns the same scene objects in the same order.
C18_IdempotentAnyPath == [][RepeatCall => SameScenes]_vars

\* C18, amended: after a call with next state T that returned from the
\* full path, a call on its output with previous state T and a next state
\* that is another object with the same routes in the same order returns
\* a list of the same length with the same scene object at each position,
\* stale scenes included.
C18_Idempotent == [][(RepeatCall /\ path = "full") => SameScenes]_vars

\* a call with two states of the same children that returned, in their
\* order, the scene objects it was given, a stale one among them
C18_Witness ==
  /\ ReturnedFull
  /\ argPrev.ref # 0
  /\ argNext.ref # argPrev.ref
  /\ argNext.children = argPrev.children
  /\ Len(argNext.children) > 0
  /\ Len(Out) > Len(argNext.children)
  /\ Out = In
  /\ \E j \in 1..Len(Out) : Out[j].isStale

====
